---- MODULE Spec2Model ----
(***************************************************************************)
(* MyDNS adapter: the profile store (registry.rs), the notification        *)
(* dispatcher (notify.rs) and the service control loop (winservice.rs).    *)
(*                                                                         *)
(* One service process runs run_service_loop_impl on its own thread; the   *)
(* service host delivers control events to event_handler on another        *)
(* thread; a separate interactive process may call save_to_registry and    *)
(* delete_config on the same store at any time.                            *)
(***************************************************************************)
EXTENDS Integers, Sequences, FiniteSets, TLC

(***************************************************************************)
(* Bounds of the model.                                                    *)
(***************************************************************************)
\* control events the host delivers during one run
MaxSignals == 2
\* wait-phase timeouts during one run
MaxTimeouts == 2
\* store operations of the interactive process during one run
MaxEdits == 1
\* subkeys damaged from outside the program
MaxDamage == 1
\* log_info and log_error calls of one process
MaxLogCalls == 3

(***************************************************************************)
(* Values.                                                                 *)
(***************************************************************************)
\* subkey names, in the order RegEnumKeyExW reports them
IdOrder == <<"mydns1", "mydns2">>
Ids == {IdOrder[i] : i \in 1..Len(IdOrder)}
\* the terminator set_reg_string puts behind the UTF-16 code units of a string
NUL == 0
\* a string is the sequence of its UTF-16 code units: "p1", "p2"
Passwords == {<<112, 49>>, <<112, 50>>}
\* the passwords in the store when a run starts
InitPasswords == {<<112, 49>>}
\* a value that does not exist under a subkey
NoValue == "NoValue"

IPv4Url == "https://ipv4.mydns.jp/login.html"
IPv6Url == "https://ipv6.mydns.jp/login.html"

\* what client.get(url).basic_auth(id, pw).send() can end with
Outcomes == {"transport_error", "status_2xx", "status_other"}

\* ServiceControl values the host can deliver
ControlEvents == {"Stop", "Interrogate", "Pause"}

\* ServiceState and exit code of one set_service_status call
Status(state, code) == [current_state |-> state, exit_code |-> code]

(***************************************************************************)
(* registry.rs: the store.                                                 *)
(***************************************************************************)
\* A store is [root, keys]: the state of the root key Software\MyDNSAdapter
\* ("missing", "present", or "unreadable" when it cannot be opened) and its
\* subkeys, a function from the names that exist to their three values.

\* registry.rs Config
Config(id, pw, v4, v6) ==
    [master_id |-> id, password |-> pw, ipv4_notify |-> v4, ipv6_notify |-> v6]

\* a value under a subkey: its registry type and its data
RegSz(units) == [type |-> "REG_SZ", data |-> units]
RegDword(n) == [type |-> "REG_DWORD", data |-> n]
\* no value of that name under the subkey
NoString == [type |-> NoValue, data |-> <<>>]
NoDword == [type |-> NoValue, data |-> 0]

\* a subkey as RegCreateKeyExW creates it: no values yet; accessible says
\* whether the subkey can be opened (RegOpenKeyExW, RegCreateKeyExW)
EmptyKey ==
    [Password |-> NoString, IPv4Notify |-> NoDword, IPv6Notify |-> NoDword,
     accessible |-> TRUE]

\* set_reg_string: the code units of value and a terminating NUL, as REG_SZ
set_reg_string(value) == RegSz(value \o <<NUL>>)

\* set_reg_dword: value as REG_DWORD
set_reg_dword(value) == RegDword(value)

\* the buffer as it is, terminator and all
WholeBuffer(buffer) == buffer

\* buffer[..len] with len the position of the first NUL, or the whole buffer
UntilNul(buffer) ==
    LET nuls == {i \in DOMAIN buffer : buffer[i] = NUL}
        len == IF nuls = {} THEN Len(buffer)
               ELSE (CHOOSE i \in nuls : \A j \in nuls : i <= j) - 1
    IN SubSeq(buffer, 1, len)

\* get_reg_string(..).unwrap_or_default(): an absent value, one of size 0 and
\* one that is not REG_SZ read as the empty string, a REG_SZ value as its
\* code units before the first NUL
get_reg_string(key, name) ==
    IF key[name].type # "REG_SZ" \/ Len(key[name].data) = 0 THEN <<>>
    ELSE UntilNul(key[name].data)

\* get_reg_dword(..).unwrap_or(0): an absent value, or one that is not
\* REG_DWORD, reads as 0
get_reg_dword(key, name) ==
    IF key[name].type # "REG_DWORD" THEN 0 ELSE key[name].data

\* the body of load_all_configs' loop for one readable subkey
ReadConfig(id, key) ==
    Config(id,
           get_reg_string(key, "Password"),
           get_reg_dword(key, "IPv4Notify") = 1,
           get_reg_dword(key, "IPv6Notify") = 1)

\* the subkeys RegEnumKeyExW reports at index 0, 1, ...
RECURSIVE EnumKeys(_, _)
EnumKeys(keys, i) ==
    IF i > Len(IdOrder) THEN <<>>
    ELSE IF IdOrder[i] \notin DOMAIN keys THEN EnumKeys(keys, i + 1)
    ELSE <<IdOrder[i]>> \o EnumKeys(keys, i + 1)

\* ScanKeys that ends the scan at the first subkey it cannot open
RECURSIVE ScanKeysStopAtDenied(_, _, _)
ScanKeysStopAtDenied(keys, names, index) ==
    IF index >= Len(names) THEN <<>>
    ELSE IF ~keys[names[index + 1]].accessible THEN <<>>
    ELSE <<ReadConfig(names[index + 1], keys[names[index + 1]])>>
             \o ScanKeysStopAtDenied(keys, names, index + 1)

\* load_all_configs' loop: index walks the enumeration until
\* ERROR_NO_MORE_ITEMS; a subkey that cannot be opened is passed over
RECURSIVE ScanKeys(_, _, _)
ScanKeys(keys, names, index) ==
    IF index >= Len(names) THEN <<>>
    ELSE IF ~keys[names[index + 1]].accessible THEN ScanKeys(keys, names, index + 1)
    ELSE <<ReadConfig(names[index + 1], keys[names[index + 1]])>>
             \o ScanKeys(keys, names, index + 1)

\* load_all_configs that takes a missing root key for an error like any other
load_all_configs_strict(st) ==
    IF st.root # "present" THEN [ok |-> FALSE, configs |-> <<>>]
    ELSE [ok |-> TRUE, configs |-> ScanKeys(st.keys, EnumKeys(st.keys, 1), 0)]

\* load_all_configs: Ok(empty) without a root key, Err when the root key cannot
\* be opened, else one Config per subkey that can be opened
load_all_configs(st) ==
    IF st.root = "missing" THEN [ok |-> TRUE, configs |-> <<>>]
    ELSE IF st.root = "unreadable" THEN [ok |-> FALSE, configs |-> <<>>]
    ELSE [ok |-> TRUE, configs |-> ScanKeys(st.keys, EnumKeys(st.keys, 1), 0)]

\* load_all_configs().unwrap_or_default()
LoadOrDefault(st) ==
    LET r == load_all_configs(st) IN IF r.ok THEN r.configs ELSE <<>>

\* where save_to_registry can fail: nowhere, at RegCreateKeyExW, or at one of
\* the three RegSetValueExW calls
FailPoints == {"none", "create", "Password", "IPv4Notify", "IPv6Notify"}

\* save_to_registry: create or open the subkey, then set the three values in
\* order; the first failing call returns its error and leaves what was written
save_to_registry(st, id, pw, v4, v6, failAt) ==
    IF \/ failAt = "create"
       \/ st.root = "unreadable"
       \/ (id \in DOMAIN st.keys /\ ~st.keys[id].accessible)
    THEN [ok |-> FALSE, store |-> st]
    ELSE
      LET k0 == IF id \in DOMAIN st.keys THEN st.keys[id] ELSE EmptyKey
          k1 == IF failAt = "Password" THEN k0
                ELSE [k0 EXCEPT !.Password = set_reg_string(pw)]
          k2 == IF failAt \in {"Password", "IPv4Notify"} THEN k1
                ELSE [k1 EXCEPT !.IPv4Notify = set_reg_dword(IF v4 THEN 1 ELSE 0)]
          k3 == IF failAt \in {"Password", "IPv4Notify", "IPv6Notify"} THEN k2
                ELSE [k2 EXCEPT !.IPv6Notify = set_reg_dword(IF v6 THEN 1 ELSE 0)]
      IN [ok |-> failAt = "none",
          store |-> [root |-> "present",
                     keys |-> [i \in DOMAIN st.keys \cup {id} |->
                                  IF i = id THEN k3 ELSE st.keys[i]]]]

\* delete_config that reports success when there is nothing to delete
delete_config_quiet(st, id) ==
    IF st.root # "present" \/ id \notin DOMAIN st.keys
    THEN [ok |-> TRUE, err |-> "none", store |-> st]
    ELSE [ok |-> TRUE, err |-> "none",
          store |-> [st EXCEPT !.keys = [i \in DOMAIN st.keys \ {id} |-> st.keys[i]]]]

\* delete_config: open the root key for writing, delete the subkey; the error
\* of RegOpenKeyExW or of RegDeleteKeyW is the result
delete_config(st, id) ==
    IF st.root = "unreadable"
    THEN [ok |-> FALSE, err |-> "ERROR_ACCESS_DENIED", store |-> st]
    ELSE IF st.root = "missing" \/ id \notin DOMAIN st.keys
    THEN [ok |-> FALSE, err |-> "ERROR_FILE_NOT_FOUND", store |-> st]
    ELSE IF ~st.keys[id].accessible
    THEN [ok |-> FALSE, err |-> "ERROR_ACCESS_DENIED", store |-> st]
    ELSE [ok |-> TRUE, err |-> "none",
          store |-> [st EXCEPT !.keys = [i \in DOMAIN st.keys \ {id} |-> st.keys[i]]]]

\* the stores a run can start from: no root key, a root key that cannot be
\* opened, or a root key whose subkeys were all written by save_to_registry
WrittenKeys ==
    [Password : {set_reg_string(pw) : pw \in InitPasswords},
     IPv4Notify : {set_reg_dword(0), set_reg_dword(1)},
     IPv6Notify : {set_reg_dword(0), set_reg_dword(1)},
     accessible : {TRUE}]

InitStores ==
    {[root |-> r, keys |-> <<>>] : r \in {"missing", "unreadable"}}
      \cup {[root |-> "present", keys |-> k] :
              k \in UNION {[D -> WrittenKeys] : D \in SUBSET Ids}}

(***************************************************************************)
(* State.                                                                  *)
(***************************************************************************)
VARIABLES
    store,          \* the registry
    edits,          \* store operations the interactive process has made
    pc,             \* where run_service_loop_impl is
    ret,            \* its return value: "none" while it runs, "Ok" or "Err"
    registered,     \* the host holds event_handler
    txAlive,        \* shutdown_tx, which event_handler owns, exists
    chan,           \* messages queued in the shutdown channel
    statusReports,  \* the set_service_status calls made, in order
    configs,        \* the profile list of the run
    loads,          \* load_all_configs calls of the run
    idx,            \* position of the for loop in configs, from 1
    inflight,       \* HTTP requests sent and not yet answered
    passes,         \* dispatch passes started
    passesDone,     \* dispatch passes finished
    timeouts,       \* recv_timeout calls that ended in Timeout
    calls,          \* perform_notification calls started
    callReqs,       \* requests of the current perform_notification call
    callOut,        \* their outcomes
    callLog,        \* log records of the current perform_notification call
    sigAt,          \* history: where the loop was when the channel first held
                    \* a message or lost its sender ("none" before that)
    sigBy,          \* history: "message" or "disconnected", what it was
    sigPasses,      \* history: the dispatch passes started by then
    now,            \* notify_now_mode: its arguments and its temp_config
    cli,            \* the add, edit and remove runs of main.rs, one per process
    last,           \* the last call made from outside the runs: of a registry.rs
                    \* function, or of event_handler by the host
    damaged,        \* subkeys damaged from outside the program
    logFile,        \* mydns.log, and what has been logged to it
    scan            \* a load_all_configs call taken step by step

\* what the command-line runs and direct calls keep
toolVars == <<now, cli, last, damaged, logFile, scan>>

vars == <<store, edits, pc, ret, registered, txAlive, chan, statusReports,
          configs, loads, idx, inflight, passes, passesDone, timeouts, calls,
          callReqs, callOut, callLog, sigAt, sigBy, sigPasses, now, cli, last,
          damaged, logFile, scan>>

\* the processes that run one command of main.rs each
Procs == {"cli1", "cli2"}

\* no notify_now_mode call
NoRun ==
    [use_ipv4 |-> FALSE, use_ipv6 |-> FALSE,
     temp_config |-> Config("", <<>>, FALSE, FALSE), log |-> <<>>]

\* a process of main.rs before its command line is read
NotStarted ==
    [mode |-> "none", pc |-> "start", id |-> "",
     config_to_edit |-> Config("", <<>>, FALSE, FALSE), result |-> "none"]

\* no direct call yet
NoCall ==
    [op |-> "none", id |-> "", pw |-> <<>>, v4 |-> FALSE, v6 |-> FALSE,
     existed |-> FALSE, ok |-> TRUE, err |-> "none", configs |-> <<>>]

\* a log file: `old` lines that were there before the program ran, then the
\* characters in `tail`; `old0` and `sent` keep what the file began with and
\* the lines log_to_file was given, `failed` that one of its calls failed
LogFile(n) ==
    [old |-> n, tail |-> <<>>, old0 |-> n, sent |-> <<>>, clock |-> 0,
     failed |-> FALSE]

\* no log file
NoLog == LogFile(0)

\* a load_all_configs call that has not begun: where it is, its index, the
\* name RegEnumKeyExW gave, whether hkey_root is open, its configs, its
\* result, and the indexes it has passed to RegEnumKeyExW
NoScan ==
    [pc |-> "start", index |-> 0, master_id |-> "", hkey_root |-> "none",
     configs |-> <<>>, ret |-> "none", asked |-> <<>>]

\* the service process alone: nothing else runs
ToolsIdle ==
    /\ now = NoRun
    /\ cli = [p \in Procs |-> NotStarted]
    /\ last = NoCall
    /\ damaged = 0
    /\ logFile = NoLog
    /\ scan = NoScan

Init ==
    /\ store \in InitStores
    /\ edits = 0
    /\ pc = "start"
    /\ ret = "none"
    /\ registered = FALSE
    /\ txAlive = TRUE
    /\ chan = 0
    /\ statusReports = <<>>
    /\ configs = <<>>
    /\ loads = 0
    /\ idx = 0
    /\ inflight = 0
    /\ passes = 0
    /\ passesDone = 0
    /\ timeouts = 0
    /\ calls = 0
    /\ callReqs = <<>>
    /\ callOut = <<>>
    /\ callLog = <<>>
    /\ sigAt = "none"
    /\ sigBy = "none"
    /\ sigPasses = 0
    /\ ToolsIdle

(***************************************************************************)
(* winservice.rs: event_handler, on the host's thread.                     *)
(***************************************************************************)
\* event_handler that forwards every control event into the channel
event_handler_forward_all(control_event) ==
    [send |-> TRUE,
     result |-> IF control_event \in {"Stop", "Interrogate"}
                THEN "NoError" ELSE "NotImplemented"]

\* event_handler: Stop and Interrogate send () into the channel and return
\* NoError, every other event returns NotImplemented
event_handler(control_event) ==
    IF control_event \in {"Stop", "Interrogate"}
    THEN [send |-> TRUE, result |-> "NoError"]
    ELSE [send |-> FALSE, result |-> "NotImplemented"]

\* where the control loop is, seen from outside
LoopPhase ==
    CASE pc \in {"start", "registered", "load"} -> "starting"
      [] pc \in {"notify_v4", "http_v4", "notify_v6", "http_v6", "notify_ret"} -> "pass"
      [] pc = "wait" -> "wait"
      [] OTHER -> "stopped"

\* the first message or the loss of the sender is what ends the next wait
NoteSignal(queued, senderAlive) ==
    IF sigAt = "none" /\ (queued > 0 \/ ~senderAlive)
    THEN /\ sigAt' = LoopPhase
         /\ sigBy' = IF queued > 0 THEN "message" ELSE "disconnected"
         /\ sigPasses' = passes
    ELSE UNCHANGED <<sigAt, sigBy, sigPasses>>

\* the host delivers a control event; shutdown_tx.send(()).ok() queues a
\* message unless the receiver is gone, and then the error is dropped
HostControl ==
    /\ registered
    /\ txAlive
    /\ chan < MaxSignals
    /\ \E ev \in ControlEvents :
         chan' = IF event_handler(ev).send /\ pc # "returned"
                 THEN chan + 1 ELSE chan
    /\ NoteSignal(chan', txAlive)
    /\ UNCHANGED <<store, edits, pc, ret, registered, txAlive, statusReports,
                   configs, loads, idx, inflight, passes, passesDone, timeouts,
                   calls, callReqs, callOut, callLog>>
    /\ UNCHANGED toolVars

\* the host drops event_handler, and shutdown_tx with it
HandlerDropped ==
    /\ registered
    /\ txAlive
    /\ txAlive' = FALSE
    /\ NoteSignal(chan, FALSE)
    /\ UNCHANGED <<store, edits, pc, ret, registered, chan, statusReports,
                   configs, loads, idx, inflight, passes, passesDone, timeouts,
                   calls, callReqs, callOut, callLog>>
    /\ UNCHANGED toolVars

(***************************************************************************)
(* main.rs: the interactive process, on the same store.                    *)
(***************************************************************************)
\* add_mode and edit_mode end in save_to_registry, remove_mode in
\* delete_config; only what they do while the service runs is of interest.
\* A save that completes: its failures leave other values in the store and
\* nothing else.
ExternalSave ==
    /\ ret = "none"
    /\ edits < MaxEdits
    /\ \E id \in Ids, pw \in Passwords, v4 \in BOOLEAN, v6 \in BOOLEAN :
         store' = save_to_registry(store, id, pw, v4, v6, "none").store
    /\ edits' = edits + 1
    /\ UNCHANGED <<pc, ret, registered, txAlive, chan, statusReports, configs,
                   loads, idx, inflight, passes, passesDone, timeouts, calls,
                   callReqs, callOut, callLog, sigAt, sigBy, sigPasses>>
    /\ UNCHANGED toolVars

ExternalDelete ==
    /\ ret = "none"
    /\ edits < MaxEdits
    /\ \E id \in Ids : store' = delete_config(store, id).store
    /\ edits' = edits + 1
    /\ UNCHANGED <<pc, ret, registered, txAlive, chan, statusReports, configs,
                   loads, idx, inflight, passes, passesDone, timeouts, calls,
                   callReqs, callOut, callLog, sigAt, sigBy, sigPasses>>
    /\ UNCHANGED toolVars

(***************************************************************************)
(* winservice.rs: run_service_loop_impl, on the service's thread.          *)
(***************************************************************************)
\* `for config in &configs` starts: the first perform_notification call
StartPass ==
    /\ passes' = passes + 1
    /\ idx' = 1
    /\ calls' = calls + 1
    /\ callReqs' = <<>>
    /\ callOut' = <<>>
    /\ callLog' = <<>>
    /\ pc' = "notify_v4"

\* service_control_handler::register(SERVICE_NAME, event_handler)?
RegisterHandler ==
    /\ pc = "start"
    /\ \E ok \in BOOLEAN :
         IF ok
         THEN /\ registered' = TRUE
              /\ pc' = "registered"
              /\ UNCHANGED <<ret, txAlive>>
         ELSE /\ registered' = FALSE
              /\ txAlive' = FALSE
              /\ pc' = "returned"
              /\ ret' = "Err"
    /\ UNCHANGED <<store, edits, chan, statusReports, configs, loads, idx,
                   inflight, passes, passesDone, timeouts, calls, callReqs,
                   callOut, callLog, sigAt, sigBy, sigPasses>>
    /\ UNCHANGED toolVars

\* status_handle.set_service_status(Running, exit code 0)?
ReportRunning ==
    /\ pc = "registered"
    /\ statusReports' = Append(statusReports, Status("Running", 0))
    /\ \E ok \in BOOLEAN :
         IF ok
         THEN pc' = "load" /\ ret' = ret
         ELSE pc' = "returned" /\ ret' = "Err"
    /\ UNCHANGED <<store, edits, registered, txAlive, chan, configs, loads,
                   idx, inflight, passes, passesDone, timeouts, calls,
                   callReqs, callOut, callLog, sigAt, sigBy, sigPasses>>
    /\ UNCHANGED toolVars

\* LoadConfigs without the is_empty check: an empty list goes on to the loop
LoadConfigsUnchecked ==
    /\ pc = "load"
    /\ configs' = LoadOrDefault(store)
    /\ loads' = loads + 1
    /\ IF configs' = <<>>
       THEN /\ pc' = "wait"
            /\ passes' = passes + 1
            /\ passesDone' = passesDone + 1
            /\ UNCHANGED <<idx, calls, callReqs, callOut, callLog>>
       ELSE StartPass /\ UNCHANGED passesDone
    /\ UNCHANGED <<store, edits, ret, registered, txAlive, chan, statusReports,
                   inflight, timeouts, sigAt, sigBy, sigPasses>>
    /\ UNCHANGED toolVars

\* LoadConfigs that looks at the channel before the first pass and leaves it
\* out when a message is queued
LoadConfigsStopAware ==
    /\ pc = "load"
    /\ configs' = LoadOrDefault(store)
    /\ loads' = loads + 1
    /\ IF configs' = <<>>
       THEN /\ statusReports' = Append(statusReports, Status("Stopped", 1))
            /\ pc' = "returned"
            /\ \E ok \in BOOLEAN : ret' = IF ok THEN "Ok" ELSE "Err"
            /\ UNCHANGED <<idx, passes, calls, callReqs, callOut, callLog>>
       ELSE IF chan > 0
       THEN /\ pc' = "wait"
            /\ UNCHANGED <<statusReports, ret, idx, passes, calls, callReqs,
                           callOut, callLog>>
       ELSE /\ StartPass
            /\ UNCHANGED <<statusReports, ret>>
    /\ UNCHANGED <<store, edits, registered, txAlive, chan, inflight,
                   passesDone, timeouts, sigAt, sigBy, sigPasses>>
    /\ UNCHANGED toolVars

\* load_all_configs().unwrap_or_default(); when it is empty report Stopped
\* with exit code 1 and return, else build the client and enter the first
\* `for config in &configs`
LoadConfigs ==
    /\ pc = "load"
    /\ configs' = LoadOrDefault(store)
    /\ loads' = loads + 1
    /\ IF configs' = <<>>
       THEN /\ statusReports' = Append(statusReports, Status("Stopped", 1))
            /\ pc' = "returned"
            /\ \E ok \in BOOLEAN : ret' = IF ok THEN "Ok" ELSE "Err"
            /\ UNCHANGED <<idx, passes, calls, callReqs, callOut, callLog>>
       ELSE /\ StartPass
            /\ UNCHANGED <<statusReports, ret>>
    /\ UNCHANGED <<store, edits, registered, txAlive, chan, inflight,
                   passesDone, timeouts, sigAt, sigBy, sigPasses>>
    /\ UNCHANGED toolVars

\* recv_timeout as a sleep of five minutes that looks at the queue only
\* afterwards: a queued message does not end the wait
recv_timeout_sleeping(queued, senderAlive) ==
    IF ~senderAlive /\ queued = 0 THEN "Disconnected" ELSE "Timeout"

\* recv_timeout with Err(Disconnected) taken for a timeout
recv_timeout_deaf(queued, senderAlive) ==
    IF queued > 0 THEN "Ok" ELSE "Timeout"

\* shutdown_rx.recv_timeout(5 min): a queued message first, else Disconnected
\* when the sender is gone, else Timeout after five minutes
recv_timeout(queued, senderAlive) ==
    IF queued > 0 THEN "Ok"
    ELSE IF ~senderAlive THEN "Disconnected"
    ELSE "Timeout"

\* Ok(_) | Err(Disconnected) => continue: the message is consumed and the
\* loop waits again
RecvContinue ==
    /\ pc = "wait"
    /\ recv_timeout(chan, txAlive) = "Ok"
    /\ chan' = chan - 1
    /\ UNCHANGED <<store, edits, pc, ret, registered, txAlive, statusReports,
                   configs, loads, idx, inflight, passes, passesDone, timeouts,
                   calls, callReqs, callOut, callLog, sigAt, sigBy, sigPasses>>
    /\ UNCHANGED toolVars

\* Ok(_) | Err(Disconnected) => break
RecvBreak ==
    /\ pc = "wait"
    /\ recv_timeout(chan, txAlive) \in {"Ok", "Disconnected"}
    /\ chan' = IF chan > 0 THEN chan - 1 ELSE chan
    /\ pc' = "stopping"
    /\ UNCHANGED <<store, edits, ret, registered, txAlive, statusReports,
                   configs, loads, idx, inflight, passes, passesDone, timeouts,
                   calls, callReqs, callOut, callLog, sigAt, sigBy, sigPasses>>
    /\ UNCHANGED toolVars

\* Err(Timeout) => {}: the timeout is taken and no pass is made
RecvTimeoutNoPass ==
    /\ pc = "wait"
    /\ recv_timeout(chan, txAlive) = "Timeout"
    /\ timeouts < MaxTimeouts
    /\ timeouts' = timeouts + 1
    /\ UNCHANGED <<store, edits, pc, ret, registered, txAlive, chan,
                   statusReports, configs, loads, idx, inflight, passes,
                   passesDone, calls, callReqs, callOut, callLog, sigAt, sigBy,
                   sigPasses>>
    /\ UNCHANGED toolVars

\* Err(Timeout) => the store is read again before the pass
RecvTimeoutReload ==
    /\ pc = "wait"
    /\ recv_timeout(chan, txAlive) = "Timeout"
    /\ timeouts < MaxTimeouts
    /\ timeouts' = timeouts + 1
    /\ configs' = LoadOrDefault(store)
    /\ loads' = loads + 1
    /\ IF configs' = <<>>
       THEN /\ pc' = "wait"
            /\ passes' = passes + 1
            /\ passesDone' = passesDone + 1
            /\ UNCHANGED <<idx, calls, callReqs, callOut, callLog>>
       ELSE StartPass /\ UNCHANGED passesDone
    /\ UNCHANGED <<store, edits, ret, registered, txAlive, chan, statusReports,
                   inflight, sigAt, sigBy, sigPasses>>
    /\ UNCHANGED toolVars

\* Err(Timeout) => for config in &configs { perform_notification(..) }
RecvTimeout ==
    /\ pc = "wait"
    /\ recv_timeout(chan, txAlive) = "Timeout"
    /\ timeouts < MaxTimeouts
    /\ timeouts' = timeouts + 1
    /\ StartPass
    /\ UNCHANGED <<store, edits, ret, registered, txAlive, chan, statusReports,
                   configs, loads, inflight, passesDone, sigAt, sigBy, sigPasses>>
    /\ UNCHANGED toolVars

\* ReportStopped that goes back to the wait after the report
ReportStoppedAndWait ==
    /\ pc = "stopping"
    /\ statusReports' = Append(statusReports, Status("Stopped", 0))
    /\ pc' = "wait"
    /\ UNCHANGED <<store, edits, ret, registered, txAlive, chan, configs, loads,
                   idx, inflight, passes, passesDone, timeouts, calls,
                   callReqs, callOut, callLog, sigAt, sigBy, sigPasses>>
    /\ UNCHANGED toolVars

\* after the loop: set_service_status(Stopped, exit code 0)?; Ok(())
ReportStopped ==
    /\ pc = "stopping"
    /\ statusReports' = Append(statusReports, Status("Stopped", 0))
    /\ pc' = "returned"
    /\ \E ok \in BOOLEAN : ret' = IF ok THEN "Ok" ELSE "Err"
    /\ UNCHANGED <<store, edits, registered, txAlive, chan, configs, loads,
                   idx, inflight, passes, passesDone, timeouts, calls,
                   callReqs, callOut, callLog, sigAt, sigBy, sigPasses>>
    /\ UNCHANGED toolVars

(***************************************************************************)
(* notify.rs: perform_notification and notify.                             *)
(***************************************************************************)
\* the request notify sends: GET url with Basic credentials (id, pw)
Request(url, config) ==
    [url |-> url, id |-> config.master_id, pw |-> config.password]

\* is_success that takes every response for a success, whatever its status
is_success_any_response(outcome) == outcome # "transport_error"

\* send()? passed and status.is_success(): a response arrived and its status
\* is 2xx
is_success(outcome) == outcome = "status_2xx"

\* the one log record of a notify call: log_info inside notify on success
\* (id, url and status), log_error in perform_notification on Err (id, the
\* message of the protocol and the error)
LogRecord(url, config, outcome) ==
    [level |-> IF is_success(outcome) THEN "info" ELSE "error",
     id |-> config.master_id,
     url |-> url,
     detail |-> outcome]

\* SendV4 that does not block on the response
SendV4Async ==
    /\ pc = "notify_v4"
    /\ IF configs[idx].ipv4_notify
       THEN /\ callReqs' = Append(callReqs, Request(IPv4Url, configs[idx]))
            /\ inflight' = inflight + 1
       ELSE UNCHANGED <<callReqs, inflight>>
    /\ pc' = "notify_v6"
    /\ UNCHANGED <<store, edits, ret, registered, txAlive, chan, statusReports,
                   configs, loads, idx, passes, passesDone, timeouts, calls,
                   callOut, callLog, sigAt, sigBy, sigPasses>>
    /\ UNCHANGED toolVars

\* if config.ipv4_notify { notify(client, IPv4 url, ..) }: send() is issued
SendV4 ==
    /\ pc = "notify_v4"
    /\ IF configs[idx].ipv4_notify
       THEN /\ callReqs' = Append(callReqs, Request(IPv4Url, configs[idx]))
            /\ inflight' = inflight + 1
            /\ pc' = "http_v4"
       ELSE /\ pc' = "notify_v6"
            /\ UNCHANGED <<callReqs, inflight>>
    /\ UNCHANGED <<store, edits, ret, registered, txAlive, chan, statusReports,
                   configs, loads, idx, passes, passesDone, timeouts, calls,
                   callOut, callLog, sigAt, sigBy, sigPasses>>
    /\ UNCHANGED toolVars

\* DoneV4 that sends the request again after a failure
DoneV4Retry ==
    /\ pc = "http_v4"
    /\ inflight' = inflight - 1
    /\ \E outcome \in Outcomes :
         /\ callOut' = Append(callOut, outcome)
         /\ callLog' = Append(callLog, LogRecord(IPv4Url, configs[idx], outcome))
         /\ pc' = IF ~is_success(outcome) /\ Len(callReqs) < 2
                  THEN "notify_v4" ELSE "notify_v6"
    /\ UNCHANGED <<store, edits, ret, registered, txAlive, chan, statusReports,
                   configs, loads, idx, passes, passesDone, timeouts, calls,
                   callReqs, sigAt, sigBy, sigPasses>>
    /\ UNCHANGED toolVars

\* DoneV4 that leaves perform_notification when the IPv4 request failed
DoneV4SkipV6 ==
    /\ pc = "http_v4"
    /\ inflight' = inflight - 1
    /\ \E outcome \in Outcomes :
         /\ callOut' = Append(callOut, outcome)
         /\ callLog' = Append(callLog, LogRecord(IPv4Url, configs[idx], outcome))
         /\ pc' = IF is_success(outcome) THEN "notify_v6" ELSE "notify_ret"
    /\ UNCHANGED <<store, edits, ret, registered, txAlive, chan, statusReports,
                   configs, loads, idx, passes, passesDone, timeouts, calls,
                   callReqs, sigAt, sigBy, sigPasses>>
    /\ UNCHANGED toolVars

\* DoneV4 that gives the pass up when the IPv4 request failed
DoneV4Abort ==
    /\ pc = "http_v4"
    /\ inflight' = inflight - 1
    /\ \E outcome \in Outcomes :
         /\ callOut' = Append(callOut, outcome)
         /\ callLog' = Append(callLog, LogRecord(IPv4Url, configs[idx], outcome))
         /\ IF is_success(outcome)
            THEN pc' = "notify_v6" /\ UNCHANGED <<idx, passesDone>>
            ELSE pc' = "wait" /\ idx' = 0 /\ passesDone' = passesDone + 1
    /\ UNCHANGED <<store, edits, ret, registered, txAlive, chan, statusReports,
                   configs, loads, passes, timeouts, calls, callReqs, sigAt,
                   sigBy, sigPasses>>
    /\ UNCHANGED toolVars

\* send() returns: notify logs success or returns Err, which is logged
DoneV4 ==
    /\ pc = "http_v4"
    /\ inflight' = inflight - 1
    /\ \E outcome \in Outcomes :
         /\ callOut' = Append(callOut, outcome)
         /\ callLog' = Append(callLog, LogRecord(IPv4Url, configs[idx], outcome))
    /\ pc' = "notify_v6"
    /\ UNCHANGED <<store, edits, ret, registered, txAlive, chan, statusReports,
                   configs, loads, idx, passes, passesDone, timeouts, calls,
                   callReqs, sigAt, sigBy, sigPasses>>
    /\ UNCHANGED toolVars

\* if config.ipv6_notify { notify(client, IPv6 url, ..) }: send() is issued
SendV6 ==
    /\ pc = "notify_v6"
    /\ IF configs[idx].ipv6_notify
       THEN /\ callReqs' = Append(callReqs, Request(IPv6Url, configs[idx]))
            /\ inflight' = inflight + 1
            /\ pc' = "http_v6"
       ELSE /\ pc' = "notify_ret"
            /\ UNCHANGED <<callReqs, inflight>>
    /\ UNCHANGED <<store, edits, ret, registered, txAlive, chan, statusReports,
                   configs, loads, idx, passes, passesDone, timeouts, calls,
                   callOut, callLog, sigAt, sigBy, sigPasses>>
    /\ UNCHANGED toolVars

DoneV6 ==
    /\ pc = "http_v6"
    /\ inflight' = inflight - 1
    /\ \E outcome \in Outcomes :
         /\ callOut' = Append(callOut, outcome)
         /\ callLog' = Append(callLog, LogRecord(IPv6Url, configs[idx], outcome))
    /\ pc' = "notify_ret"
    /\ UNCHANGED <<store, edits, ret, registered, txAlive, chan, statusReports,
                   configs, loads, idx, passes, passesDone, timeouts, calls,
                   callReqs, sigAt, sigBy, sigPasses>>
    /\ UNCHANGED toolVars

\* NextConfig that looks at the channel between two profiles and gives the
\* pass up when a message is queued
NextConfigPreempt ==
    /\ pc = "notify_ret"
    /\ callReqs' = <<>>
    /\ callOut' = <<>>
    /\ callLog' = <<>>
    /\ IF idx < Len(configs) /\ chan = 0
       THEN /\ idx' = idx + 1
            /\ calls' = calls + 1
            /\ pc' = "notify_v4"
            /\ UNCHANGED passesDone
       ELSE /\ idx' = 0
            /\ passesDone' = passesDone + 1
            /\ pc' = "wait"
            /\ UNCHANGED calls
    /\ UNCHANGED <<store, edits, ret, registered, txAlive, chan, statusReports,
                   configs, loads, inflight, passes, timeouts, sigAt, sigBy,
                   sigPasses>>
    /\ UNCHANGED toolVars

\* perform_notification returns and the for loop takes the next config, or
\* ends and the loop goes (back) to recv_timeout
NextConfig ==
    /\ pc = "notify_ret"
    /\ callReqs' = <<>>
    /\ callOut' = <<>>
    /\ callLog' = <<>>
    /\ IF idx < Len(configs)
       THEN /\ idx' = idx + 1
            /\ calls' = calls + 1
            /\ pc' = "notify_v4"
            /\ UNCHANGED passesDone
       ELSE /\ idx' = 0
            /\ passesDone' = passesDone + 1
            /\ pc' = "wait"
            /\ UNCHANGED calls
    /\ UNCHANGED <<store, edits, ret, registered, txAlive, chan, statusReports,
                   configs, loads, inflight, passes, timeouts, sigAt, sigBy, sigPasses>>
    /\ UNCHANGED toolVars

\* the steps of the service's thread
ControlLoop ==
    \/ RegisterHandler
    \/ ReportRunning
    \/ LoadConfigs
    \/ SendV4
    \/ DoneV4
    \/ SendV6
    \/ DoneV6
    \/ NextConfig
    \/ RecvBreak
    \/ RecvTimeout
    \/ ReportStopped

\* the service run with the store at rest
Next ==
    \/ ControlLoop
    \/ HostControl
    \/ HandlerDropped

Spec == Init /\ [][Next]_vars

\* the scheduler runs the service's thread, and every HTTP call returns
LiveSpec == Spec /\ WF_vars(ControlLoop)

\* the service run while the provider cannot be reached or refuses: no request
\* of the run ends in a 2xx response
AllRequestsFail ==
    Len(callOut') > Len(callOut) => ~is_success(callOut'[Len(callOut')])

OutageNext ==
    \/ ControlLoop /\ AllRequestsFail
    \/ HostControl
    \/ HandlerDropped

OutageSpec == Init /\ [][OutageNext]_vars

\* the service run with the interactive process at work on the store
EditNext ==
    \/ Next
    \/ ExternalSave
    \/ ExternalDelete

EditSpec == Init /\ [][EditNext]_vars

(***************************************************************************)
(* The service run with the host's calls of event_handler written down.    *)
(***************************************************************************)
\* HostControl, with the control event and the result event_handler returns
\* to the host kept in `last`
HostControlSeen ==
    /\ registered
    /\ txAlive
    /\ chan < MaxSignals
    /\ \E ev \in ControlEvents :
         /\ chan' = IF event_handler(ev).send /\ pc # "returned"
                    THEN chan + 1 ELSE chan
         /\ last' = [NoCall EXCEPT !.op = "event_handler", !.id = ev,
                                   !.err = event_handler(ev).result]
    /\ NoteSignal(chan', txAlive)
    /\ UNCHANGED <<store, edits, pc, ret, registered, txAlive, statusReports,
                   configs, loads, idx, inflight, passes, passesDone, timeouts,
                   calls, callReqs, callOut, callLog>>
    /\ UNCHANGED <<now, cli, damaged, logFile, scan>>

ControlNext ==
    \/ ControlLoop
    \/ HostControlSeen
    \/ HandlerDropped

ControlSpec == Init /\ [][ControlNext]_vars

(***************************************************************************)
(* notify.rs: notify_now_mode, in a process of its own.                    *)
(***************************************************************************)
\* main: use_ipv4 = args.notify || args.ipv4, use_ipv6 = args.notify ||
\* args.ipv6, and the mode is taken when one of the three flags is given
NowInit ==
    /\ store \in InitStores
    /\ \E notify \in BOOLEAN, ipv4 \in BOOLEAN, ipv6 \in BOOLEAN :
         /\ notify \/ ipv4 \/ ipv6
         /\ now = [NoRun EXCEPT !.use_ipv4 = notify \/ ipv4,
                                !.use_ipv6 = notify \/ ipv6]
    /\ pc = "now_start"
    /\ edits = 0
    /\ ret = "none"
    /\ registered = FALSE
    /\ txAlive = FALSE
    /\ chan = 0
    /\ statusReports = <<>>
    /\ configs = <<>>
    /\ loads = 0
    /\ idx = 0
    /\ inflight = 0
    /\ passes = 0
    /\ passesDone = 0
    /\ timeouts = 0
    /\ calls = 0
    /\ callReqs = <<>>
    /\ callOut = <<>>
    /\ callLog = <<>>
    /\ sigAt = "none"
    /\ sigBy = "none"
    /\ sigPasses = 0
    /\ cli = [p \in Procs |-> NotStarted]
    /\ last = NoCall
    /\ damaged = 0
    /\ logFile = NoLog
    /\ scan = NoScan

\* TempConfig that takes the flags of the command line alone
TempConfigFlagsOnly(use_ipv4, use_ipv6, config) ==
    [config EXCEPT !.ipv4_notify = use_ipv4, !.ipv6_notify = use_ipv6]

\* temp_config: a clone of config whose flags are the command-line flag and
\* the profile's own flag together
TempConfig(use_ipv4, use_ipv6, config) ==
    [config EXCEPT !.ipv4_notify = use_ipv4 /\ config.ipv4_notify,
                   !.ipv6_notify = use_ipv6 /\ config.ipv6_notify]

\* log_info(start); load_all_configs().unwrap_or_else(Vec::new); an empty
\* list is logged and the function returns, else the for loop starts
NowLoad ==
    /\ pc = "now_start"
    /\ configs' = LoadOrDefault(store)
    /\ loads' = loads + 1
    /\ IF configs' = <<>>
       THEN /\ now' = [now EXCEPT !.log = <<"log_notify_start", "log_config_missing">>]
            /\ ret' = "Ok"
            /\ pc' = "now_done"
            /\ UNCHANGED <<idx, passes, calls>>
       ELSE /\ now' = [now EXCEPT
                          !.log = <<"log_notify_start">>,
                          !.temp_config = TempConfig(now.use_ipv4, now.use_ipv6,
                                                     configs'[1])]
            /\ idx' = 1
            /\ passes' = passes + 1
            /\ calls' = calls + 1
            /\ pc' = "now_v4"
            /\ UNCHANGED ret
    /\ UNCHANGED <<store, edits, registered, txAlive, chan, statusReports,
                   inflight, passesDone, timeouts, callReqs, callOut, callLog,
                   sigAt, sigBy, sigPasses, cli, last, damaged, logFile, scan>>

\* perform_notification(&client, &temp_config): the IPv4 block
NowSendV4 ==
    /\ pc = "now_v4"
    /\ IF now.temp_config.ipv4_notify
       THEN /\ callReqs' = Append(callReqs, Request(IPv4Url, now.temp_config))
            /\ inflight' = inflight + 1
            /\ pc' = "now_http_v4"
       ELSE /\ pc' = "now_v6"
            /\ UNCHANGED <<callReqs, inflight>>
    /\ UNCHANGED <<store, edits, ret, registered, txAlive, chan, statusReports,
                   configs, loads, idx, passes, passesDone, timeouts, calls,
                   callOut, callLog, sigAt, sigBy, sigPasses>>
    /\ UNCHANGED toolVars

NowDoneV4 ==
    /\ pc = "now_http_v4"
    /\ inflight' = inflight - 1
    /\ \E outcome \in Outcomes :
         /\ callOut' = Append(callOut, outcome)
         /\ callLog' = Append(callLog, LogRecord(IPv4Url, now.temp_config, outcome))
    /\ pc' = "now_v6"
    /\ UNCHANGED <<store, edits, ret, registered, txAlive, chan, statusReports,
                   configs, loads, idx, passes, passesDone, timeouts, calls,
                   callReqs, sigAt, sigBy, sigPasses>>
    /\ UNCHANGED toolVars

\* perform_notification(&client, &temp_config): the IPv6 block
NowSendV6 ==
    /\ pc = "now_v6"
    /\ IF now.temp_config.ipv6_notify
       THEN /\ callReqs' = Append(callReqs, Request(IPv6Url, now.temp_config))
            /\ inflight' = inflight + 1
            /\ pc' = "now_http_v6"
       ELSE /\ pc' = "now_ret"
            /\ UNCHANGED <<callReqs, inflight>>
    /\ UNCHANGED <<store, edits, ret, registered, txAlive, chan, statusReports,
                   configs, loads, idx, passes, passesDone, timeouts, calls,
                   callOut, callLog, sigAt, sigBy, sigPasses>>
    /\ UNCHANGED toolVars

NowDoneV6 ==
    /\ pc = "now_http_v6"
    /\ inflight' = inflight - 1
    /\ \E outcome \in Outcomes :
         /\ callOut' = Append(callOut, outcome)
         /\ callLog' = Append(callLog, LogRecord(IPv6Url, now.temp_config, outcome))
    /\ pc' = "now_ret"
    /\ UNCHANGED <<store, edits, ret, registered, txAlive, chan, statusReports,
                   configs, loads, idx, passes, passesDone, timeouts, calls,
                   callReqs, sigAt, sigBy, sigPasses>>
    /\ UNCHANGED toolVars

\* perform_notification returns: the for loop takes the next config, or ends,
\* and then log_info(finish) and Ok(())
NowNextConfig ==
    /\ pc = "now_ret"
    /\ callReqs' = <<>>
    /\ callOut' = <<>>
    /\ callLog' = <<>>
    /\ IF idx < Len(configs)
       THEN /\ idx' = idx + 1
            /\ now' = [now EXCEPT
                          !.temp_config = TempConfig(now.use_ipv4, now.use_ipv6,
                                                     configs[idx + 1])]
            /\ calls' = calls + 1
            /\ pc' = "now_v4"
            /\ UNCHANGED <<passesDone, ret>>
       ELSE /\ idx' = 0
            /\ now' = [now EXCEPT !.log = Append(now.log, "log_notify_finish")]
            /\ passesDone' = passesDone + 1
            /\ ret' = "Ok"
            /\ pc' = "now_done"
            /\ UNCHANGED calls
    /\ UNCHANGED <<store, edits, registered, txAlive, chan, statusReports,
                   configs, loads, inflight, passes, timeouts, sigAt, sigBy,
                   sigPasses, cli, last, damaged, logFile, scan>>

NotifyNowNext ==
    \/ NowLoad
    \/ NowSendV4
    \/ NowDoneV4
    \/ NowSendV6
    \/ NowDoneV6
    \/ NowNextConfig

NotifyNowSpec == NowInit /\ [][NotifyNowNext]_vars

(***************************************************************************)
(* registry.rs: the functions called one at a time, on any store.          *)
(***************************************************************************)
\* no service process and no notify_now_mode run
ServiceAbsent ==
    /\ pc = "absent"
    /\ edits = 0
    /\ ret = "none"
    /\ registered = FALSE
    /\ txAlive = FALSE
    /\ chan = 0
    /\ statusReports = <<>>
    /\ configs = <<>>
    /\ loads = 0
    /\ idx = 0
    /\ inflight = 0
    /\ passes = 0
    /\ passesDone = 0
    /\ timeouts = 0
    /\ calls = 0
    /\ callReqs = <<>>
    /\ callOut = <<>>
    /\ callLog = <<>>
    /\ sigAt = "none"
    /\ sigBy = "none"
    /\ sigPasses = 0
    /\ now = NoRun

serviceVars ==
    <<edits, pc, ret, registered, txAlive, chan, statusReports, configs, loads,
      idx, inflight, passes, passesDone, timeouts, calls, callReqs, callOut,
      callLog, sigAt, sigBy, sigPasses, now>>

\* the passwords a caller can pass: ask_with_default returns the trimmed
\* input, or the default, which is empty in add_mode
Secrets == Passwords \cup {<<>>}

StoreInit ==
    /\ store \in InitStores
    /\ last = NoCall
    /\ damaged = 0
    /\ logFile = NoLog
    /\ scan = NoScan
    /\ cli = [p \in Procs |-> NotStarted]
    /\ ServiceAbsent

\* save_to_registry(id, pw, v4, v6) is called, and writes all it has to write
\* or cannot open the subkey
CallSave ==
    /\ \E id \in Ids, pw \in Secrets, v4 \in BOOLEAN, v6 \in BOOLEAN,
          failAt \in {"none", "create"} :
         LET r == save_to_registry(store, id, pw, v4, v6, failAt) IN
           /\ store' = r.store
           /\ last' = IF r.ok
                      THEN [NoCall EXCEPT !.op = "save", !.id = id, !.pw = pw,
                                          !.v4 = v4, !.v6 = v6,
                                          !.existed = id \in DOMAIN store.keys]
                      ELSE [NoCall EXCEPT !.op = "save", !.id = id, !.ok = FALSE,
                                          !.existed = id \in DOMAIN store.keys]
    /\ UNCHANGED <<damaged, cli>>
    /\ UNCHANGED serviceVars
    /\ UNCHANGED <<logFile, scan>>

\* delete_config(id) is called
CallDelete ==
    /\ \E id \in Ids :
         LET r == delete_config(store, id) IN
           /\ store' = r.store
           /\ last' = [NoCall EXCEPT !.op = "delete", !.id = id, !.ok = r.ok,
                                     !.err = r.err,
                                     !.existed = id \in DOMAIN store.keys]
    /\ UNCHANGED <<damaged, cli>>
    /\ UNCHANGED serviceVars
    /\ UNCHANGED <<logFile, scan>>

\* load_all_configs() is called
CallLoad ==
    /\ LET r == load_all_configs(store) IN
         last' = [NoCall EXCEPT !.op = "load", !.ok = r.ok, !.configs = r.configs]
    /\ UNCHANGED <<store, damaged, cli>>
    /\ UNCHANGED serviceVars
    /\ UNCHANGED <<logFile, scan>>

\* what can happen to a subkey outside the program: a value is deleted, a
\* value gets another type, or the subkey can no longer be opened
Damages ==
    {[value |-> v, as |-> a] :
        v \in {"Password", "IPv4Notify", "IPv6Notify"},
        a \in {"absent", "wrong_type"}}
      \cup {[value |-> "subkey", as |-> "denied"]}

Damage(key, d) ==
    CASE d.value = "subkey" -> [key EXCEPT !.accessible = FALSE]
      [] d.value = "Password" ->
           [key EXCEPT !.Password =
              IF d.as = "absent" THEN NoString ELSE set_reg_dword(1)]
      [] OTHER ->
           [key EXCEPT ![d.value] =
              IF d.as = "absent" THEN NoDword ELSE set_reg_string(<<49>>)]

\* a subkey is damaged from outside
DamageKey ==
    /\ damaged < MaxDamage
    /\ store.root = "present"
    /\ \E id \in DOMAIN store.keys, d \in Damages :
         /\ store' = [store EXCEPT !.keys[id] = Damage(store.keys[id], d)]
         /\ last' = [NoCall EXCEPT !.op = "damage", !.id = id]
    /\ damaged' = damaged + 1
    /\ UNCHANGED cli
    /\ UNCHANGED serviceVars
    /\ UNCHANGED <<logFile, scan>>

StoreNext ==
    \/ CallSave
    \/ CallDelete
    \/ CallLoad
    \/ DamageKey

StoreSpec == StoreInit /\ [][StoreNext]_vars

(***************************************************************************)
(* registry.rs: load_all_configs, one call taken step by step.             *)
(***************************************************************************)
ScanInit ==
    /\ store \in InitStores
    /\ scan = NoScan
    /\ logFile = NoLog
    /\ cli = [p \in Procs |-> NotStarted]
    /\ last = NoCall
    /\ damaged = 0
    /\ ServiceAbsent

\* what a step of the call leaves alone
scanFrame == <<store, cli, last, damaged, logFile>>

\* RegOpenKeyExW on the root key: ERROR_FILE_NOT_FOUND returns Ok(empty), any
\* other error returns it, success sets index to 0
ScanOpenRoot ==
    /\ scan.pc = "start"
    /\ scan' = CASE store.root = "missing" ->
                      [scan EXCEPT !.pc = "returned", !.ret = "Ok"]
                 [] store.root = "unreadable" ->
                      [scan EXCEPT !.pc = "returned", !.ret = "Err"]
                 [] OTHER ->
                      [scan EXCEPT !.pc = "enum", !.hkey_root = "open", !.index = 0]
    /\ UNCHANGED scanFrame
    /\ UNCHANGED serviceVars

\* ScanEnum whose `continue` after an error leaves the index where it is
ScanEnumSameIndex ==
    /\ scan.pc = "enum"
    /\ LET names == EnumKeys(store.keys, 1)
           seen == [scan EXCEPT !.asked = Append(scan.asked, scan.index)]
       IN IF scan.index >= Len(names)
          THEN scan' = [seen EXCEPT !.pc = "close"]
          ELSE \E res \in {"ERROR_SUCCESS", "ERROR_MORE_DATA"} :
                 scan' = IF res = "ERROR_SUCCESS"
                         THEN [seen EXCEPT !.master_id = names[scan.index + 1],
                                           !.pc = "open"]
                         ELSE seen
    /\ UNCHANGED scanFrame
    /\ UNCHANGED serviceVars

\* RegEnumKeyExW(hkey_root, index, ..): ERROR_NO_MORE_ITEMS past the last
\* subkey breaks the loop; any other error advances the index and continues;
\* success gives the name of the subkey at index
ScanEnum ==
    /\ scan.pc = "enum"
    /\ LET names == EnumKeys(store.keys, 1)
           seen == [scan EXCEPT !.asked = Append(scan.asked, scan.index)]
       IN IF scan.index >= Len(names)
          THEN scan' = [seen EXCEPT !.pc = "close"]
          ELSE \E res \in {"ERROR_SUCCESS", "ERROR_MORE_DATA"} :
                 scan' = IF res = "ERROR_SUCCESS"
                         THEN [seen EXCEPT !.master_id = names[scan.index + 1],
                                           !.pc = "open"]
                         ELSE [seen EXCEPT !.index = scan.index + 1]
    /\ UNCHANGED scanFrame
    /\ UNCHANGED serviceVars

\* RegOpenKeyExW on the subkey: when it opens, its three values make a Config
\* that is pushed; either way the index advances
ScanOpenSub ==
    /\ scan.pc = "open"
    /\ \E opens \in BOOLEAN :
         scan' = [scan EXCEPT
                    !.configs =
                        IF opens /\ store.keys[scan.master_id].accessible
                        THEN Append(scan.configs,
                                    ReadConfig(scan.master_id,
                                               store.keys[scan.master_id]))
                        ELSE scan.configs,
                    !.index = scan.index + 1,
                    !.pc = "enum"]
    /\ UNCHANGED scanFrame
    /\ UNCHANGED serviceVars

\* after the loop: RegCloseKey(hkey_root); Ok(configs)
ScanClose ==
    /\ scan.pc = "close"
    /\ scan' = [scan EXCEPT !.hkey_root = "closed", !.ret = "Ok",
                            !.pc = "returned"]
    /\ UNCHANGED scanFrame
    /\ UNCHANGED serviceVars

ScanNext ==
    \/ ScanOpenRoot
    \/ ScanEnum
    \/ ScanOpenSub
    \/ ScanClose

\* the call runs on: no step of it waits for anything
ScanSpec == ScanInit /\ [][ScanNext]_vars /\ WF_vars(ScanNext)

(***************************************************************************)
(* main.rs: add_mode, edit_mode and remove_mode, one command per process.  *)
(***************************************************************************)
\* an id the user can type that lacks the prefix
OtherId == "host1"

\* master_id.starts_with("mydns"), over the ids of the model
starts_with_mydns(id) == id \in {"mydns1", "mydns2"}

\* configs.iter().any(|c| c.master_id == id)
AnyWithId(list, id) == \E i \in DOMAIN list : list[i].master_id = id

\* configs.iter().find(|c| c.master_id == id), for a list that holds one
Find(list, id) ==
    list[CHOOSE i \in DOMAIN list :
            /\ list[i].master_id = id
            /\ \A j \in DOMAIN list : list[j].master_id = id => i <= j]

\* how the profile to edit is named: --edit <ID>, or at the prompt a number of
\* the list or an id
Selections ==
    {[kind |-> k, id |-> i, index |-> 0] :
        k \in {"arg", "text"}, i \in Ids \cup {OtherId}}
      \cup {[kind |-> "index", id |-> "", index |-> n] : n \in 0..(Len(IdOrder) + 1)}

CliInit ==
    /\ store \in InitStores
    /\ cli = [p \in Procs |-> NotStarted]
    /\ last = NoCall
    /\ damaged = 0
    /\ logFile = NoLog
    /\ scan = NoScan
    /\ ServiceAbsent

\* the process ends with a message
Exited(p, message) ==
    cli' = [cli EXCEPT ![p] = [NotStarted EXCEPT !.mode = cli[p].mode,
                                                 !.id = cli[p].id,
                                                 !.pc = "exited",
                                                 !.result = message]]

\* main: the branch of the command line
ParseArgs(p) ==
    /\ cli[p].pc = "start"
    /\ \E m \in {"add", "edit", "remove"} :
         cli' = [cli EXCEPT ![p].mode = m, ![p].pc = m \o "_mode"]
    /\ UNCHANGED <<store, last, damaged>>
    /\ UNCHANGED serviceVars
    /\ UNCHANGED <<logFile, scan>>

\* add_mode up to the password prompt: the id is asked, the store is loaded,
\* an id that is in the list or lacks the prefix ends the run
AddCheck(p) ==
    /\ cli[p].pc = "add_mode"
    /\ \E master_id \in Ids \cup {OtherId} :
         LET list == LoadOrDefault(store) IN
           IF AnyWithId(list, master_id)
           THEN cli' = [cli EXCEPT ![p] = [NotStarted EXCEPT
                            !.mode = cli[p].mode, !.id = master_id,
                            !.pc = "exited", !.result = "account_exists"]]
           ELSE IF ~starts_with_mydns(master_id)
           THEN cli' = [cli EXCEPT ![p] = [NotStarted EXCEPT
                            !.mode = cli[p].mode, !.id = master_id,
                            !.pc = "exited", !.result = "invalid_master_id_prefix"]]
           ELSE cli' = [cli EXCEPT ![p].id = master_id, ![p].pc = "add_prompts"]
    /\ UNCHANGED <<store, last, damaged>>
    /\ UNCHANGED serviceVars
    /\ UNCHANGED <<logFile, scan>>

\* add_mode from the password prompt on: the three answers, save_to_registry,
\* and the message of its result
AddSave(p) ==
    /\ cli[p].pc = "add_prompts"
    /\ \E password \in Secrets, ipv4_notify \in BOOLEAN, ipv6_notify \in BOOLEAN,
          failAt \in FailPoints :
         LET r == save_to_registry(store, cli[p].id, password, ipv4_notify,
                                   ipv6_notify, failAt)
         IN /\ store' = r.store
            /\ Exited(p, IF r.ok THEN "add_success" ELSE "registry_save_fail")
    /\ UNCHANGED <<last, damaged>>
    /\ UNCHANGED serviceVars
    /\ UNCHANGED <<logFile, scan>>

\* edit_mode up to the password prompt: the store is loaded; an empty list
\* leads to add_mode or to the end, else the profile is looked up by the id of
\* the command line or by the number or id typed at the prompt
EditSelect(p) ==
    /\ cli[p].pc = "edit_mode"
    /\ LET list == LoadOrDefault(store) IN
         IF list = <<>>
         THEN \E yes \in BOOLEAN :
                IF yes THEN cli' = [cli EXCEPT ![p].pc = "add_mode"]
                ELSE Exited(p, "declined")
         ELSE \E sel \in Selections :
                CASE sel.kind = "index" /\ sel.index > 0 /\ sel.index <= Len(list) ->
                       cli' = [cli EXCEPT ![p].config_to_edit = list[sel.index],
                                          ![p].pc = "edit_prompts"]
                  [] sel.kind # "index" /\ AnyWithId(list, sel.id) ->
                       cli' = [cli EXCEPT ![p].config_to_edit = Find(list, sel.id),
                                          ![p].pc = "edit_prompts"]
                  [] OTHER ->
                       Exited(p, IF sel.kind = "arg" THEN "account_not_found"
                                 ELSE "invalid_selection")
    /\ UNCHANGED <<store, last, damaged>>
    /\ UNCHANGED serviceVars
    /\ UNCHANGED <<logFile, scan>>

\* edit_mode from the password prompt on: the three answers, each with the
\* loaded value as its default, save_to_registry under the loaded master_id,
\* and the message of its result
EditSave(p) ==
    /\ cli[p].pc = "edit_prompts"
    /\ \E password \in Passwords \cup {cli[p].config_to_edit.password},
          ipv4_notify \in BOOLEAN, ipv6_notify \in BOOLEAN, failAt \in FailPoints :
         LET r == save_to_registry(store, cli[p].config_to_edit.master_id,
                                   password, ipv4_notify, ipv6_notify, failAt)
         IN /\ store' = r.store
            /\ cli' = [cli EXCEPT ![p] = [NotStarted EXCEPT
                           !.mode = cli[p].mode,
                           !.id = cli[p].config_to_edit.master_id,
                           !.pc = "exited",
                           !.result = IF r.ok THEN "registry_save_success"
                                      ELSE "registry_save_fail"]]
    /\ UNCHANGED <<last, damaged>>
    /\ UNCHANGED serviceVars
    /\ UNCHANGED <<logFile, scan>>

\* remove_mode: the confirmation, and delete_config when it is given
RemoveRun(p) ==
    /\ cli[p].pc = "remove_mode"
    /\ \E id \in Ids, confirmed \in BOOLEAN :
         IF confirmed
         THEN LET r == delete_config(store, id) IN
                /\ store' = r.store
                /\ cli' = [cli EXCEPT ![p] = [NotStarted EXCEPT
                               !.mode = cli[p].mode, !.id = id, !.pc = "exited",
                               !.result = IF r.ok THEN "remove_success"
                                          ELSE "remove_fail"]]
         ELSE /\ store' = store
              /\ cli' = [cli EXCEPT ![p] = [NotStarted EXCEPT
                             !.mode = cli[p].mode, !.id = id, !.pc = "exited",
                             !.result = "operation_cancelled"]]
    /\ UNCHANGED <<last, damaged>>
    /\ UNCHANGED serviceVars
    /\ UNCHANGED <<logFile, scan>>

\* a prompt fails to read its input (`?` on the io::Result): the function
\* returns the error with nothing saved
PromptFails(p) ==
    /\ cli[p].pc \in {"add_mode", "add_prompts", "edit_mode", "edit_prompts",
                     "remove_mode"}
    /\ Exited(p, "io_error")
    /\ UNCHANGED <<store, last, damaged>>
    /\ UNCHANGED serviceVars
    /\ UNCHANGED <<logFile, scan>>

CliStep(p) ==
    \/ ParseArgs(p)
    \/ AddCheck(p)
    \/ AddSave(p)
    \/ EditSelect(p)
    \/ EditSave(p)
    \/ RemoveRun(p)
    \/ PromptFails(p)

\* the processes run side by side on the one store
CliNext == \E p \in Procs : CliStep(p)

CliSpec == CliInit /\ [][CliNext]_vars

(***************************************************************************)
(* logging.rs: log_info, log_error and log_to_file, in one process.        *)
(***************************************************************************)
MAX_LOG_LINES == 10000

\* the line feed; a string is the sequence of its pieces, of which the line
\* feed is one
LineFeed == "LF"

\* what callers pass as the message: a text of one line, and one with a line
\* feed in it, as format!("Failed to remove account {}: {}", id, e) is for an
\* id of the command line that holds one
Messages == {<<"text">>, <<"text", LineFeed, "text">>}

\* format!("[{}] [{}] {}", now, level, message)
new_line(clock, level, message) ==
    <<"[" \o ToString(clock) \o "] [" \o level \o "] " \o Head(message)>>
        \o Tail(message)

\* BufRead::lines(): the pieces up to each line feed, and what follows the
\* last one if anything does
RECURSIVE SplitLines(_)
SplitLines(content) ==
    IF content = <<>> THEN <<>>
    ELSE LET feeds == {i \in DOMAIN content : content[i] = LineFeed} IN
           IF feeds = {} THEN <<content>>
           ELSE LET i == CHOOSE f \in feeds : \A g \in feeds : f <= g
                IN <<SubSeq(content, 1, i - 1)>>
                     \o SplitLines(SubSeq(content, i + 1, Len(content)))

\* for line in lines { writeln!(file, "{}", line)? }
RECURSIVE WriteLines(_)
WriteLines(lines) ==
    IF lines = <<>> THEN <<>>
    ELSE Head(lines) \o <<LineFeed>> \o WriteLines(Tail(lines))

\* where log_to_file can fail: nowhere, before the file is opened for writing
\* (get_log_path, File::open, lines()), at that open, or at the first writeln
\* after the file was truncated
LogFailPoints == {"none", "read", "open", "write"}

\* log_to_file: read the lines, push the new one, drain the oldest beyond
\* MAX_LOG_LINES, truncate the file and write the lines back
log_to_file(file, level, message, clock, failAt) ==
    LET read == SplitLines(file.tail)
        lines == Append(read, new_line(clock, level, message))
        len == file.old + Len(lines)
        excess == IF len > MAX_LOG_LINES THEN len - MAX_LOG_LINES ELSE 0
        ofOld == IF excess < file.old THEN excess ELSE file.old
        kept == SubSeq(lines, excess - ofOld + 1, Len(lines))
    IN CASE failAt \in {"read", "open"} ->
              [ok |-> FALSE, old |-> file.old, tail |-> file.tail]
         [] failAt = "write" ->
              [ok |-> FALSE, old |-> 0, tail |-> <<>>]
         [] OTHER ->
              [ok |-> TRUE, old |-> file.old - ofOld, tail |-> WriteLines(kept)]

LogInit ==
    /\ store = [root |-> "missing", keys |-> <<>>]
    /\ logFile \in {LogFile(n) : n \in {0, MAX_LOG_LINES - 1, MAX_LOG_LINES}}
    /\ scan = NoScan
    /\ cli = [p \in Procs |-> NotStarted]
    /\ last = NoCall
    /\ damaged = 0
    /\ ServiceAbsent

\* the file and what is kept about it after one call of log_to_file
Logged(level, message, failAt) ==
    LET r == log_to_file(logFile, level, message, logFile.clock + 1, failAt)
    IN [logFile EXCEPT
          !.old = r.old,
          !.tail = r.tail,
          !.clock = logFile.clock + 1,
          !.sent = IF r.ok
                   THEN Append(logFile.sent,
                               new_line(logFile.clock + 1, level, message))
                   ELSE logFile.sent,
          !.failed = logFile.failed \/ ~r.ok]

\* log_info: log_to_file("INFO", message), its error goes to stderr
log_info ==
    /\ logFile.clock < MaxLogCalls
    /\ \E message \in Messages, failAt \in LogFailPoints :
         logFile' = Logged("INFO", message, failAt)
    /\ UNCHANGED <<store, cli, last, damaged, scan>>
    /\ UNCHANGED serviceVars

\* log_error: log_to_file("ERROR", message), its error goes to stderr
log_error ==
    /\ logFile.clock < MaxLogCalls
    /\ \E message \in Messages, failAt \in LogFailPoints :
         logFile' = Logged("ERROR", message, failAt)
    /\ UNCHANGED <<store, cli, last, damaged, scan>>
    /\ UNCHANGED serviceVars

LogNext ==
    \/ log_info
    \/ log_error

LogSpec == LogInit /\ [][LogNext]_vars

(***************************************************************************)
(* Properties of the service run.                                          *)
(***************************************************************************)
PassPcs == {"notify_v4", "http_v4", "notify_v6", "http_v6", "notify_ret"}

\* the last set_service_status call reported st
LastReportIs(st) ==
    /\ Len(statusReports) > 0
    /\ statusReports[Len(statusReports)] = st

\* the loop has left for good without starting anything after the last pass
StoppedAfter(n) ==
    /\ pc \in {"wait", "stopping", "returned"}
    /\ passes = n
    /\ passesDone = n
    /\ calls = n * Len(configs)
    /\ pc = "returned" => LastReportIs(Status("Stopped", 0))

\* the requests of the current perform_notification call that went to url
RequestsTo(url) == {i \in DOMAIN callReqs : callReqs[i].url = url}

\* C1: a stop signal that arrives while the loop is blocked in recv_timeout
\* makes the loop leave and report Stopped with no dispatch pass and no
\* perform_notification call in between.
StopInWaitNoExtraPass ==
    (sigAt = "wait" /\ sigBy = "message") => StoppedAfter(sigPasses)

StopInWaitReached ==
    /\ sigAt = "wait"
    /\ sigBy = "message"
    /\ sigPasses = 2
    /\ pc = "returned"
    /\ ret = "Ok"

\* C2: with a non-empty profile list the passes started are 1 plus the
\* timeouts taken; every pass that has ended went over every loaded profile,
\* and the loop is then back in the wait.
OnePassPerTimeout ==
    Len(configs) > 0 =>
        /\ passes = 1 + timeouts
        /\ passesDone = IF pc \in PassPcs THEN passes - 1 ELSE passes
        /\ calls = passesDone * Len(configs) + (IF pc \in PassPcs THEN idx ELSE 0)
        /\ pc \in PassPcs => idx \in 1..Len(configs)

TwoTimeoutsThreePasses ==
    /\ pc = "wait"
    /\ Len(configs) = 2
    /\ timeouts = 2
    /\ passesDone = 3
    /\ calls = 6

\* C3: a stop request that arrives during a dispatch pass stays queued while
\* the pass goes on over every remaining profile; the loop then stops at the
\* next wait and starts no other pass.
StopInPassFinishesPass ==
    (sigAt = "pass" /\ sigBy = "message") =>
        /\ passes = sigPasses
        /\ pc \in PassPcs => (chan > 0 /\ passesDone = passes - 1)
        /\ pc \notin PassPcs => StoppedAfter(sigPasses)

StopInPassReached ==
    /\ sigAt = "pass"
    /\ sigBy = "message"
    /\ Len(configs) = 2
    /\ sigPasses = 2
    /\ pc = "returned"
    /\ ret = "Ok"

\* C4: when the profile list read at Starting is empty (no root key, no
\* subkey, or a root key that cannot be read) the run ends at once: Stopped
\* is reported with exit code 1 and nothing is dispatched.
EmptyListStopsWithError ==
    /\ (loads = 1 /\ edits = 0 /\ (store.root # "present" \/ DOMAIN store.keys = {}))
          => configs = <<>>
    /\ (loads = 1 /\ configs = <<>>) =>
          /\ pc = "returned"
          /\ statusReports = <<Status("Running", 0), Status("Stopped", 1)>>
          /\ calls = 0
          /\ passes = 0
          /\ timeouts = 0
          /\ inflight = 0

UnreadableStoreStopped ==
    /\ store.root = "unreadable"
    /\ loads = 1
    /\ pc = "returned"
    /\ LastReportIs(Status("Stopped", 1))

\* C5: once a stop signal is queued for a service that runs with a non-empty
\* profile list, the loop eventually reports Stopped with exit code 0 and
\* returns.
StopEventuallyStopped ==
    (Len(configs) > 0 /\ chan > 0 /\ pc # "returned")
        ~> (pc = "returned" /\ LastReportIs(Status("Stopped", 0)))

StoppedBySignal ==
    /\ sigBy = "message"
    /\ Len(configs) > 0
    /\ timeouts = 1
    /\ pc = "returned"
    /\ LastReportIs(Status("Stopped", 0))

\* C6: when the sender of the channel disappears while the loop waits, the
\* loop leaves as for a stop signal: no other pass, Stopped with exit code 0.
DisconnectInWaitStops ==
    (sigAt = "wait" /\ sigBy = "disconnected") =>
        /\ StoppedAfter(sigPasses)
        /\ ~txAlive

DisconnectInWaitReached ==
    /\ sigAt = "wait"
    /\ sigBy = "disconnected"
    /\ chan = 0
    /\ sigPasses = 2
    /\ pc = "returned"
    /\ ret = "Ok"

\* C7: the profile list read at Starting is the one every pass uses: no step
\* after the read changes it, whatever the interactive process does to the
\* store, and every request carries the id and password of its entry.
ProfileListFixedAtStart ==
    [][/\ loads > 0 => configs' = configs
       /\ \A i \in DOMAIN callReqs' :
            /\ callReqs'[i].id = configs'[idx'].master_id
            /\ callReqs'[i].pw = configs'[idx'].password]_vars

StaleCredentialsUsed ==
    /\ edits > 0
    /\ passes >= 2
    /\ pc = "http_v4"
    /\ callReqs[1].id \in DOMAIN store.keys
    /\ get_reg_string(store.keys[callReqs[1].id], "Password") # callReqs[1].pw

\* C8, as the sentence of the overview has it: every dispatch pass reads the
\* store again.
StoreReadEachPass == passes > 0 => loads = passes

\* C8, amended: the store is read once per run, at Starting, and no later
\* pass reads it again.
StoreReadOncePerRun ==
    /\ loads <= 1
    /\ passes > 0 => loads = 1
    /\ pc \in PassPcs \cup {"wait", "stopping"} => loads = 1

ThreePassesOneRead ==
    /\ passes = 3
    /\ loads = 1
    /\ edits > 0
    /\ LoadOrDefault(store) # configs

\* C9: at most one HTTP request is in flight and at most one pass is in
\* progress; while a request is in flight the loop is inside that call, not at
\* the next profile, the next pass or the wait.
CallsAndPassesSerial ==
    /\ inflight \in {0, 1}
    /\ inflight = 1 <=> pc \in {"http_v4", "http_v6"}
    /\ Len(callReqs) = Len(callOut) + inflight
    /\ passes - passesDone \in {0, 1}
    /\ passes - passesDone = 1 <=> pc \in PassPcs

SignalDuringHttpCall ==
    /\ pc = "http_v6"
    /\ inflight = 1
    /\ chan = 2
    /\ passes = 2
    /\ idx = 2

\* C10: one perform_notification call sends one request to the IPv4 endpoint
\* when ipv4_notify is set and none when it is not, and likewise for IPv6;
\* a failed request is not sent again.
OneRequestPerEnabledProtocol ==
    /\ pc \in PassPcs =>
         /\ Cardinality(RequestsTo(IPv4Url)) <= 1
         /\ Cardinality(RequestsTo(IPv6Url)) <= 1
         /\ RequestsTo(IPv4Url) \cup RequestsTo(IPv6Url) = DOMAIN callReqs
    /\ pc = "notify_ret" =>
         /\ Cardinality(RequestsTo(IPv4Url)) = IF configs[idx].ipv4_notify THEN 1 ELSE 0
         /\ Cardinality(RequestsTo(IPv6Url)) = IF configs[idx].ipv6_notify THEN 1 ELSE 0
         /\ Len(callOut) = Len(callReqs)

FailedV4OnlyNotRetried ==
    /\ pc = "notify_ret"
    /\ configs[idx].ipv4_notify
    /\ ~configs[idx].ipv6_notify
    /\ callReqs = <<Request(IPv4Url, configs[idx])>>
    /\ callOut = <<"transport_error">>

NowCallPcs == {"now_v4", "now_http_v4", "now_v6", "now_http_v6", "now_ret"}

NowShape ==
    /\ pc \in NowCallPcs \cup {"now_start", "now_done"}
    /\ timeouts = 0
    /\ loads <= 1
    /\ passes <= 1
    /\ pc \in NowCallPcs =>
         /\ idx \in 1..Len(configs)
         /\ calls = idx
         /\ now.temp_config.master_id = configs[idx].master_id
         /\ now.temp_config.password = configs[idx].password
         /\ Cardinality(RequestsTo(IPv4Url)) <= 1
         /\ Cardinality(RequestsTo(IPv6Url)) <= 1
         /\ \A i \in DOMAIN callReqs :
              /\ callReqs[i].id = configs[idx].master_id
              /\ callReqs[i].pw = configs[idx].password
    /\ pc = "now_ret" =>
         /\ Cardinality(RequestsTo(IPv4Url)) =
               IF now.use_ipv4 /\ configs[idx].ipv4_notify THEN 1 ELSE 0
         /\ Cardinality(RequestsTo(IPv6Url)) =
               IF now.use_ipv6 /\ configs[idx].ipv6_notify THEN 1 ELSE 0
         /\ Len(callReqs) = Cardinality(RequestsTo(IPv4Url))
                               + Cardinality(RequestsTo(IPv6Url))
         /\ Len(callOut) = Len(callReqs)
    /\ pc = "now_done" =>
         /\ ret = "Ok"
         /\ calls = Len(configs)
         /\ passesDone = passes
         /\ inflight = 0

\* C14: notify_now_mode makes one pass and returns, with no wait: every loaded
\* profile gets one perform_notification call, which sends the request of a
\* protocol exactly when the command-line flag and the profile's flag of that
\* protocol are both set; the store and the loaded profiles stay as they are.
OneShotOnePass ==
    /\ []NowShape
    /\ [][/\ store' = store
          /\ loads > 0 => configs' = configs]_vars

OneShotV4OnlyOfBoth ==
    /\ pc = "now_ret"
    /\ idx = 2
    /\ now.use_ipv4
    /\ ~now.use_ipv6
    /\ configs[2].ipv4_notify
    /\ configs[2].ipv6_notify
    /\ callReqs = <<Request(IPv4Url, configs[2])>>
    /\ store.keys[configs[2].master_id].IPv6Notify = set_reg_dword(1)

(***************************************************************************)
(* Properties of the store.                                                *)
(***************************************************************************)
\* the entries of a load_all_configs result whose master_id is id
Lookup(list, id) == SelectSeq(list, LAMBDA c : c.master_id = id)

\* the subkey a complete save_to_registry(_, pw, v4, v6) leaves
WrittenKey(pw, v4, v6) ==
    [Password |-> set_reg_string(pw),
     IPv4Notify |-> set_reg_dword(IF v4 THEN 1 ELSE 0),
     IPv6Notify |-> set_reg_dword(IF v6 THEN 1 ELSE 0),
     accessible |-> TRUE]

DeleteRemovesOnlyThatProfile ==
    [][last'.op = "delete" =>
         IF last'.ok
         THEN /\ last'.id \in DOMAIN store.keys
              /\ DOMAIN store'.keys = DOMAIN store.keys \ {last'.id}
              /\ Lookup(load_all_configs(store').configs, last'.id) = <<>>
              /\ store'.root = store.root
              /\ \A other \in DOMAIN store'.keys :
                   store'.keys[other] = store.keys[other]
         ELSE /\ store' = store
              /\ (store.root # "unreadable" /\ last'.id \notin DOMAIN store.keys)
                    => last'.err = "ERROR_FILE_NOT_FOUND"]_vars

DeletedOneOfTwo ==
    /\ last.op = "delete"
    /\ last.ok
    /\ last.id = "mydns1"
    /\ DOMAIN store.keys = {"mydns2"}
    /\ Len(load_all_configs(store).configs) = 1

\* C17: load_all_configs on a store without a root key, or with a root key
\* that has no subkey, returns Ok with an empty list.
LoadOfEmptyStoreIsEmpty ==
    (/\ last.op = "load"
     /\ \/ store.root = "missing"
        \/ (store.root = "present" /\ DOMAIN store.keys = {}))
      => (last.ok /\ last.configs = <<>>)

LoadedMissingRoot ==
    /\ last.op = "load"
    /\ store.root = "missing"
    /\ last.ok
    /\ last.configs = <<>>

\* C18: load_all_configs on a store whose root key can be read returns Ok; a
\* subkey that a complete save wrote is returned once with its exact values,
\* whatever state the other subkeys are in; a subkey that can be opened is
\* returned once, with "" for a Password that is absent or not REG_SZ and
\* false for a flag that is absent or not REG_DWORD; a subkey that cannot be
\* opened is left out.
DamagedRecordHidesNothing ==
    (last.op = "load" /\ store.root = "present") =>
        /\ last.ok
        /\ \A i \in DOMAIN last.configs :
             last.configs[i].master_id \in DOMAIN store.keys
        /\ \A id \in DOMAIN store.keys :
             LET key == store.keys[id]
                 found == Lookup(last.configs, id)
             IN /\ \A pw \in Secrets, v4 \in BOOLEAN, v6 \in BOOLEAN :
                     key = WrittenKey(pw, v4, v6)
                       => found = <<Config(id, pw, v4, v6)>>
                /\ ~key.accessible => found = <<>>
                /\ key.accessible =>
                     /\ Len(found) = 1
                     /\ key.Password.type # "REG_SZ" => found[1].password = <<>>
                     /\ key.IPv4Notify.type # "REG_DWORD" => ~found[1].ipv4_notify
                     /\ key.IPv6Notify.type # "REG_DWORD" => ~found[1].ipv6_notify

LoadedBehindDeniedSubkey ==
    /\ last.op = "load"
    /\ damaged = 1
    /\ DOMAIN store.keys = {"mydns1", "mydns2"}
    /\ ~store.keys["mydns1"].accessible
    /\ last.configs = <<Config("mydns2", <<112, 49>>, TRUE, TRUE)>>

(***************************************************************************)
(* Properties of the command-line runs.                                    *)
(***************************************************************************)
\* C19: an add whose id has a subkey in the store, or lacks the prefix, ends
\* with the message of its rejection and the store as it was; and no add,
\* whatever else runs beside it, writes the subkey of an id that has one.
AddNeverOverwritesExisting ==
    [][\A p \in Procs :
         /\ (/\ cli[p].pc = "add_mode"
             /\ cli'[p].pc # "add_mode"
             /\ cli'[p].result # "io_error"
             /\ \/ cli'[p].id \in DOMAIN store.keys
                \/ ~starts_with_mydns(cli'[p].id))
              => /\ cli'[p].pc = "exited"
                 /\ cli'[p].result \in {"account_exists", "invalid_master_id_prefix"}
                 /\ store' = store
         /\ (/\ cli[p].pc = "add_prompts"
             /\ cli'[p].pc = "exited"
             /\ cli[p].id \in DOMAIN store.keys)
              => store' = store]_vars

\* C20: an edit_mode run that does not reach its save leaves the store as it
\* was (an id that is not in the list and a selection that is not valid
\* included); its save leaves the set of subkeys and every subkey other than
\* the selected one as they were.
EditChangesOnlySelectedProfile ==
    [][\A p \in Procs :
         /\ (cli[p].pc = "edit_mode" /\ cli'[p] # cli[p]) => store' = store
         /\ (cli[p].pc = "edit_prompts" /\ cli'[p].pc = "exited") =>
               /\ store'.root = store.root
               /\ DOMAIN store'.keys = DOMAIN store.keys
               /\ \A other \in DOMAIN store.keys \ {cli[p].config_to_edit.master_id} :
                    store'.keys[other] = store.keys[other]]_vars

(***************************************************************************)
(* Properties of the control events, the status reports and the log.      *)
(***************************************************************************)
\* what run_service_loop_impl and its channel hold
LoopState ==
    <<pc, ret, registered, txAlive, chan, statusReports, configs, loads, idx,
      inflight, passes, passesDone, timeouts, calls, callReqs, callOut, callLog>>

\* C21: a message enters the shutdown channel only in a call of event_handler
\* with Stop or Interrogate, which returns NoError, and a message queued
\* during the wait ends the wait without another pass; a call with any other
\* control event returns NotImplemented and leaves the channel and the state
\* of the control loop as they were.
OnlyStopAndInterrogateSignal ==
    [][/\ chan' > chan =>
            /\ last'.op = "event_handler"
            /\ last'.id \in {"Stop", "Interrogate"}
            /\ last'.err = "NoError"
            /\ chan' = chan + 1
       /\ (last' # last /\ last'.id \in {"Stop", "Interrogate"}) =>
            /\ last'.err = "NoError"
            /\ pc # "returned" => chan' = chan + 1
       /\ (last' # last /\ last'.id \notin {"Stop", "Interrogate"}) =>
            /\ last'.err = "NotImplemented"
            /\ UNCHANGED LoopState
       /\ (pc = "wait" /\ chan > 0 /\ pc' # pc) =>
            /\ pc' = "stopping"
            /\ passes' = passes]_vars

\* a Pause was delivered during the wait after a pass, and the loop waits on
PauseDeliveredInWait ==
    /\ last.op = "event_handler"
    /\ last.id = "Pause"
    /\ last.err = "NotImplemented"
    /\ pc = "wait"
    /\ chan = 0
    /\ timeouts > 0

\* Stopped has been reported to the host
StoppedReported ==
    \E i \in DOMAIN statusReports : statusReports[i].current_state = "Stopped"

\* C22: the status reports of a run are Running, then at most one Stopped;
\* the profile list is loaded and requests are sent only after Running has
\* been reported; the first wait comes after the first pass; and once Stopped
\* has been reported the run has returned: no request, pass or wait follows.
RunningThenStopped ==
    /\ [](/\ Len(statusReports) <= 2
          /\ Len(statusReports) >= 1 => statusReports[1] = Status("Running", 0)
          /\ Len(statusReports) = 2 => statusReports[2].current_state = "Stopped"
          /\ (loads > 0 \/ calls > 0 \/ passes > 0 \/ callReqs # <<>>) =>
                Len(statusReports) >= 1
          /\ (pc \in {"wait", "stopping"} \/ timeouts > 0) => passesDone >= 1
          /\ StoppedReported => (pc = "returned" /\ inflight = 0))
    /\ [][StoppedReported =>
            UNCHANGED <<pc, statusReports, loads, calls, callReqs, inflight,
                        passes, timeouts>>]_vars

\* Stopped was reported after the first pass and two more
StoppedAfterThreePasses ==
    /\ statusReports = <<Status("Running", 0), Status("Stopped", 0)>>
    /\ passesDone = 3
    /\ pc = "returned"

\* C24: when Stopped is reported in a run whose profile list is not empty,
\* perform_notification has been called for every profile of the list in at
\* least one finished pass, also when the first message entered the channel
\* before the first pass had started.
NonEmptyListGetsFirstPass ==
    (StoppedReported /\ configs # <<>>) =>
        /\ passesDone >= 1
        /\ passesDone = passes
        /\ calls = passes * Len(configs)
        /\ sigAt = "starting" => sigPasses = 0

\* the first message came during Starting, the list held two profiles, and
\* Stopped was reported after the one pass
StopBeforeFirstPassStillPassed ==
    /\ StoppedReported
    /\ Len(configs) = 2
    /\ sigAt = "starting"
    /\ sigBy = "message"
    /\ passesDone = 1
    /\ calls = 2

\* C23: after log_info and log_error calls that all completed without an I/O
\* error, the file holds at most MAX_LOG_LINES lines, its last line is the
\* line logged last, and its lines are the newest of the lines it began with
\* and the lines logged since, in their order.
LogHoldsNewestLines ==
    (~logFile.failed /\ logFile.sent # <<>>) =>
        LET lines == SplitLines(logFile.tail)
            sent == logFile.sent
            total == logFile.old0 + Len(sent)
            keep == IF total > MAX_LOG_LINES THEN MAX_LOG_LINES ELSE total
            ofSent == IF keep < Len(sent) THEN keep ELSE Len(sent)
        IN /\ logFile.old + Len(lines) <= MAX_LOG_LINES
           /\ lines # <<>>
           /\ lines[Len(lines)] = sent[Len(sent)]
           /\ lines = SubSeq(sent, Len(sent) - ofSent + 1, Len(sent))
           /\ logFile.old = keep - ofSent

\* C25: a save_to_registry call that returns an error, in add_mode or in
\* edit_mode, leaves the store as it was before the call, and so
\* load_all_configs returns what it returned before.
FailedSaveLeavesStore ==
    [][\A p \in Procs :
         (/\ cli[p].pc \in {"add_prompts", "edit_prompts"}
          /\ cli'[p].result = "registry_save_fail")
           => /\ store' = store
              /\ load_all_configs(store') = load_all_configs(store)]_vars

\* C26: the save of an edit_mode run whose profile has no subkey any more
\* leaves the store without a subkey of that id; a subkey comes into the store
\* only by the save of add_mode.
EditNeverCreates ==
    [][/\ \A p \in Procs :
            (/\ cli[p].pc = "edit_prompts"
             /\ cli'[p].pc = "exited"
             /\ cli[p].config_to_edit.master_id \notin DOMAIN store.keys)
              => cli[p].config_to_edit.master_id \notin DOMAIN store'.keys
       /\ \A id \in DOMAIN store'.keys \ DOMAIN store.keys :
            \E p \in Procs : /\ cli[p].pc = "add_prompts"
                             /\ cli'[p].pc = "exited"
                             /\ cli[p].id = id]_vars

\* C27: a load_all_configs call returns, whichever subkeys fail to enumerate
\* or to open; it passes every index to RegEnumKeyExW at most once and in
\* rising order, and when the root key was opened it returns after the
\* ERROR_NO_MORE_ITEMS of the index behind the last subkey, with hkey_root
\* closed.
ScanEndsAtNoMoreItems ==
    /\ <>(scan.pc = "returned")
    /\ [](/\ \A i, j \in DOMAIN scan.asked : i < j => scan.asked[i] < scan.asked[j]
          /\ scan.index <= Cardinality(DOMAIN store.keys)
          /\ (scan.pc = "returned" /\ store.root = "present") =>
                /\ scan.hkey_root = "closed"
                /\ scan.ret = "Ok"
                /\ scan.asked = [i \in 1..(Cardinality(DOMAIN store.keys) + 1) |-> i - 1]
          /\ (scan.pc = "returned" /\ store.root # "present") =>
                scan.hkey_root = "none")

\* the call returned after the first of two subkeys failed to enumerate and
\* the second was read
ScanPassedFailingEntry ==
    /\ scan.pc = "returned"
    /\ Cardinality(DOMAIN store.keys) = 2
    /\ Len(scan.configs) = 1
    /\ scan.configs[1].master_id = IdOrder[2]
    /\ scan.hkey_root = "closed"

====
